---- MODULE Spec2Model ----
(***************************************************************************)
(* Model of nobitex/schema/orderbook.py: the OrderBookEntry and OrderBook  *)
(* pydantic models and the all_order_books_T adapter.                      *)
(*                                                                         *)
(* Raw inputs are Python/JSON values.  A value is a record of one shape,   *)
(*   [t, s, n, items, keys]                                                *)
(* t: "str" | "int" | "float" | "none" | "list" | "tuple" | "dict";        *)
(* s: the characters of a str, or the repr of a float;  n: an int;         *)
(* items: the elements of a list/tuple, or the values of a dict;           *)
(* keys: the keys of a dict, keys[i] mapped to items[i].                   *)
(* A character is a one-character string.                                  *)
(***************************************************************************)
EXTENDS Integers, Sequences, FiniteSets, TLC

VARIABLES op, raw, out, obj, text, arg, nmut

vars == <<op, raw, out, obj, text, arg, nmut>>

\* ------------------------------------------------------------------ bounds

\* Longest numeric string enumerated over Alphabet.
MaxLen == 3
\* Ints -MaxInt..MaxInt are enumerated as numeric inputs.
MaxInt == 11
\* Longest list or tuple given in place of an entry.
MaxSeq == 3
\* Longest bids/asks list of a raw book.
MaxBook == 3
\* Most symbols of a raw snapshot.
MaxSyms == 2
\* Most assignments/appends applied to one constructed object.
MaxMut == 2

\* ------------------------------------------------------------------ values

Str(chars) == [t |-> "str", s |-> chars, n |-> 0, items |-> <<>>, keys |-> <<>>]
IntV(i) == [t |-> "int", s |-> <<>>, n |-> i, items |-> <<>>, keys |-> <<>>]
FloatV(repr) == [t |-> "float", s |-> repr, n |-> 0, items |-> <<>>, keys |-> <<>>]
NoneV == [t |-> "none", s |-> <<>>, n |-> 0, items |-> <<>>, keys |-> <<>>]
ListV(xs) == [t |-> "list", s |-> <<>>, n |-> 0, items |-> xs, keys |-> <<>>]
TupleV(xs) == [t |-> "tuple", s |-> <<>>, n |-> 0, items |-> xs, keys |-> <<>>]
DictV(ks, xs) == [t |-> "dict", s |-> <<>>, n |-> 0, items |-> xs, keys |-> ks]

\* k in d
DictHas(d, k) == \E i \in 1..Len(d.keys) : d.keys[i] = k

\* d[k]
DictGet(d, k) == d.items[CHOOSE i \in 1..Len(d.keys) : d.keys[i] = k]

\* ------------------------------------------------------------------ characters

Digit == {"0", "1", "2", "3", "4", "5", "6", "7", "8", "9"}

DigitChars == <<"0", "1", "2", "3", "4", "5", "6", "7", "8", "9">>

DigitVal(c) == (CHOOSE i \in 1..10 : DigitChars[i] = c) - 1

AllDigits(cs) == \A i \in 1..Len(cs) : cs[i] \in Digit

\* First index of a character of set C in cs, or 0.
FirstIn(cs, C) ==
    IF \E i \in 1..Len(cs) : cs[i] \in C
    THEN CHOOSE i \in 1..Len(cs) : cs[i] \in C /\ \A j \in 1..(i - 1) : cs[j] \notin C
    ELSE 0

\* str.lower() on the letters that spell the special values.
LowerChar(c) ==
    CASE c = "I" -> "i"
      [] c = "N" -> "n"
      [] c = "F" -> "f"
      [] c = "A" -> "a"
      [] c = "T" -> "t"
      [] c = "Y" -> "y"
      [] c = "S" -> "s"
      [] OTHER -> c

Lower(cs) == [i \in 1..Len(cs) |-> LowerChar(cs[i])]

\* str(int(digits)): leading zeros dropped, "0" for zero.
StripZeros(ds) ==
    IF \A i \in 1..Len(ds) : ds[i] = "0" THEN <<"0">>
    ELSE SubSeq(ds, FirstIn(ds, Digit \ {"0"}), Len(ds))

\* int(digits): the first k digits of ds as a number.
RECURSIVE PrefixToNat(_, _)
PrefixToNat(ds, k) ==
    IF k = 0 THEN 0 ELSE 10 * PrefixToNat(ds, k - 1) + DigitVal(ds[k])

DigitsToNat(ds) == PrefixToNat(ds, Len(ds))

\* str(n) for n >= 0.
RECURSIVE NatToDigits(_)
NatToDigits(n) ==
    IF n < 10 THEN <<DigitChars[n + 1]>>
    ELSE NatToDigits(n \div 10) \o <<DigitChars[(n % 10) + 1]>>

\* n copies of "0".
Zeros(n) == [i \in 1..n |-> "0"]

\* ------------------------------------------------------------------ Decimal

(* A decimal.Decimal: sign (0 or 1), int (the coefficient's digits, no      *)
(* leading zeros), exp (the exponent), kind ("finite", "inf" or "nan").     *)
Dec(sg, ds, e) == [sign |-> sg, int |-> ds, exp |-> e, kind |-> "finite"]

DecSpecial(sg, k) == [sign |-> sg, int |-> <<"0">>, exp |-> 0, kind |-> k]

\* The result of a conversion that raised decimal.InvalidOperation.
Invalid == [sign |-> 0, int |-> <<>>, exp |-> 0, kind |-> "invalid"]

\* The sign character of a numeric string, if it has one.
Signed(cs) == Len(cs) > 0 /\ cs[1] \in {"-", "+"}

SignOf(cs) == IF Signed(cs) /\ cs[1] = "-" THEN 1 ELSE 0

Unsigned(cs) == IF Signed(cs) THEN Tail(cs) ELSE cs

\* The exponent group of the Decimal grammar: optional sign, then digits.
IsExpText(cs) == Len(Unsigned(cs)) > 0 /\ AllDigits(Unsigned(cs))

ExpValue(cs) == (IF SignOf(cs) = 1 THEN -1 ELSE 1) * DigitsToNat(Unsigned(cs))

\* Inf, Infinity, NaN or sNaN with optional diagnostic digits, any case.
SpecialOf(low) ==
    IF low \in {<<"i", "n", "f">>, <<"i", "n", "f", "i", "n", "i", "t", "y">>}
    THEN "inf"
    ELSE IF Len(low) >= 3 /\ SubSeq(low, 1, 3) = <<"n", "a", "n">>
            /\ AllDigits(SubSeq(low, 4, Len(low)))
    THEN "nan"
    ELSE IF Len(low) >= 4 /\ SubSeq(low, 1, 4) = <<"s", "n", "a", "n">>
            /\ AllDigits(SubSeq(low, 5, Len(low)))
    THEN "nan"
    ELSE "none"

SpecialKind(body) == SpecialOf(Lower(body))

\* body split at its first "E" or "e" (0: there is none).
Mantissa(body, epos) == IF epos = 0 THEN body ELSE SubSeq(body, 1, epos - 1)

ExpText(body, epos) == IF epos = 0 THEN <<>> ELSE SubSeq(body, epos + 1, Len(body))

\* mant split at its first "." (0: there is none).
IntPart(mant, dot) == IF dot = 0 THEN mant ELSE SubSeq(mant, 1, dot - 1)

FracPart(mant, dot) == IF dot = 0 THEN <<>> ELSE SubSeq(mant, dot + 1, Len(mant))

\* As DecimalOfParts, the fraction's length left out of the exponent.
DecimalOfPartsNoScale(sg, intpart, fracpart, hasexp, etext) ==
    IF /\ AllDigits(intpart)
       /\ AllDigits(fracpart)
       /\ Len(intpart) + Len(fracpart) > 0
       /\ hasexp => IsExpText(etext)
    THEN Dec(sg, StripZeros(intpart \o fracpart), IF hasexp THEN ExpValue(etext) ELSE 0)
    ELSE Invalid

\* _int = str(int(intpart + fracpart)), _exp = exp - len(fracpart); at least
\* one digit in all, and digits after an "E".
DecimalOfParts(sg, intpart, fracpart, hasexp, etext) ==
    IF /\ AllDigits(intpart)
       /\ AllDigits(fracpart)
       /\ Len(intpart) + Len(fracpart) > 0
       /\ hasexp => IsExpText(etext)
    THEN Dec(sg, StripZeros(intpart \o fracpart),
             (IF hasexp THEN ExpValue(etext) ELSE 0) - Len(fracpart))
    ELSE Invalid

DecimalOfMantissa(sg, mant, hasexp, etext) ==
    DecimalOfParts(sg, IntPart(mant, FirstIn(mant, {"."})),
                   FracPart(mant, FirstIn(mant, {"."})), hasexp, etext)

DecimalOfBody(sg, body, kind) ==
    IF kind # "none" THEN DecSpecial(sg, kind)
    ELSE DecimalOfMantissa(sg, Mantissa(body, FirstIn(body, {"E", "e"})),
                           FirstIn(body, {"E", "e"}) # 0,
                           ExpText(body, FirstIn(body, {"E", "e"})))

\* decimal.Decimal(<str>).  Grammar: optional sign, then either digits with
\* an optional "." and fraction digits (at least one digit in all) and an
\* optional exponent "E" sign digits, or Inf / Infinity / NaN / sNaN.
DecimalFromStr(cs) == DecimalOfBody(SignOf(cs), Unsigned(cs), SpecialKind(Unsigned(cs)))

\* decimal.Decimal(<int>)
DecimalFromInt(i) ==
    IF i < 0 THEN Dec(1, NatToDigits(0 - i), 0) ELSE Dec(0, NatToDigits(i), 0)

\* As DecimalToStr, always in plain notation: the exponent is not written.
DecimalToStrNoExp(d) ==
    (IF d.sign = 1 THEN <<"-">> ELSE <<>>)
        \o (IF d.exp >= 0 THEN d.int
            ELSE IF Len(d.int) + d.exp > 0
            THEN SubSeq(d.int, 1, Len(d.int) + d.exp) \o <<".">>
                    \o SubSeq(d.int, Len(d.int) + d.exp + 1, Len(d.int))
            ELSE <<"0", ".">> \o Zeros(0 - (Len(d.int) + d.exp)) \o d.int)

(* Decimal.__str__: plain notation when exp <= 0 and the adjusted position  *)
(* is above -6, scientific otherwise.                                       *)
DecimalToStr(d) ==
    LET n == Len(d.int)
        leftdigits == d.exp + n
        dotplace == IF d.exp <= 0 /\ leftdigits > -6 THEN leftdigits ELSE 1
        intpart ==
            IF dotplace <= 0 THEN <<"0">>
            ELSE IF dotplace >= n THEN d.int \o Zeros(dotplace - n)
            ELSE SubSeq(d.int, 1, dotplace)
        fracpart ==
            IF dotplace <= 0 THEN <<".">> \o Zeros(0 - dotplace) \o d.int
            ELSE IF dotplace >= n THEN <<>>
            ELSE <<".">> \o SubSeq(d.int, dotplace + 1, n)
        e == leftdigits - dotplace
        exptext ==
            IF e = 0 THEN <<>>
            ELSE IF e < 0 THEN <<"E", "-">> \o NatToDigits(0 - e)
            ELSE <<"E", "+">> \o NatToDigits(e)
    IN  (IF d.sign = 1 THEN <<"-">> ELSE <<>>) \o intpart \o fracpart \o exptext

\* ------------------------------------------------------------------ results

(* The outcome of a validation: ok with the validated value, or a           *)
(* ValidationError carrying errs, each error a location (a path of keys     *)
(* and indices, indices written as strings) and an error type.              *)
Ok(v) == [ok |-> TRUE, val |-> v, errs |-> <<>>]

Fail(es) == [ok |-> FALSE, val |-> NoneV, errs |-> es]

Err(loc, type) == [loc |-> loc, type |-> type]

\* The errors es reported under the location step k.
Under(k, es) == [i \in 1..Len(es) |-> Err(<<k>> \o es[i].loc, es[i].type)]

\* The concatenation of the first k sequences of ss.
RECURSIVE FlattenTo(_, _)
FlattenTo(ss, k) == IF k = 0 THEN <<>> ELSE FlattenTo(ss, k - 1) \o ss[k]

Flatten(ss) == FlattenTo(ss, Len(ss))

\* ------------------------------------------------------------------ OrderBookEntry

\* The outcome of Decimal(x): a string Decimal rejects is a parsing error,
\* NaN and Infinity are not finite numbers.
DecimalResult(d) ==
    IF d.kind = "invalid" THEN Fail(<<Err(<<>>, "decimal_parsing")>>)
    ELSE IF d.kind # "finite" THEN Fail(<<Err(<<>>, "finite_number")>>)
    ELSE Ok(d)

(* A field annotated Decimal: a str or an int goes to Decimal(x), a float   *)
(* to Decimal(str(x)); anything else is a type error.                       *)
ValidateDecimal(v) ==
    IF v.t \notin {"str", "int", "float"} THEN Fail(<<Err(<<>>, "decimal_type")>>)
    ELSE DecimalResult(IF v.t = "int" THEN DecimalFromInt(v.n) ELSE DecimalFromStr(v.s))

\* As parse_list, element 0 taken for quantity and element 1 for price.
parse_list_swapped(data) ==
    IF data.t \in {"list", "tuple"} /\ Len(data.items) = 2
    THEN DictV(<<"price", "quantity">>, <<data.items[2], data.items[1]>>)
    ELSE data

\* As parse_list, the length not checked: the first two elements are taken.
parse_list_unchecked(data) ==
    IF data.t \in {"list", "tuple"} /\ Len(data.items) >= 2
    THEN DictV(<<"price", "quantity">>, <<data.items[1], data.items[2]>>)
    ELSE data

\* OrderBookEntry.parse_list, the mode="before" validator.
parse_list(data) ==
    IF data.t \in {"list", "tuple"} /\ Len(data.items) = 2
    THEN DictV(<<"price", "quantity">>, <<data.items[1], data.items[2]>>)
    ELSE data

\* The outcome r of a field's validation, its errors reported under f.
FieldResult(f, r) == IF r.ok THEN r ELSE Fail(Under(f, r.errs))

\* One required Decimal field f of the mapping d: missing, or validated.
EntryField(d, f) ==
    IF ~DictHas(d, f) THEN Fail(<<Err(<<f>>, "missing")>>)
    ELSE FieldResult(f, ValidateDecimal(DictGet(d, f)))

\* As EntryResult, stopping at the first field that fails.
EntryResultFirstError(p, q) ==
    IF p.ok /\ q.ok THEN Ok([price |-> p.val, quantity |-> q.val])
    ELSE IF ~p.ok THEN Fail(p.errs)
    ELSE Fail(q.errs)

\* The entry of the two fields' outcomes, or every error of both.
EntryResult(p, q) ==
    IF p.ok /\ q.ok THEN Ok([price |-> p.val, quantity |-> q.val])
    ELSE Fail(p.errs \o q.errs)

\* As EntryOfMapping, with extra keys forbidden.
EntryOfMappingForbid(d) ==
    IF d.t # "dict" THEN Fail(<<Err(<<>>, "model_type")>>)
    ELSE IF \E i \in 1..Len(d.keys) : d.keys[i] \notin {"price", "quantity"}
    THEN Fail(<<Err(<<"extra">>, "extra_forbidden")>>)
    ELSE EntryResult(EntryField(d, "price"), EntryField(d, "quantity"))

\* The model's own validation: a mapping's fields price and quantity, every
\* error collected, other keys ignored.
EntryOfMapping(d) ==
    IF d.t # "dict" THEN Fail(<<Err(<<>>, "model_type")>>)
    ELSE EntryResult(EntryField(d, "price"), EntryField(d, "quantity"))

\* OrderBookEntry.model_validate: parse_list first, then the model.
ValidateEntry(data) == EntryOfMapping(parse_list(data))

\* ------------------------------------------------------------------ JSON

Quote == "\""

KeyChars(k) ==
    CASE k = "price" -> <<"p", "r", "i", "c", "e">>
      [] k = "quantity" -> <<"q", "u", "a", "n", "t", "i", "t", "y">>
      [] OTHER -> <<"?">>

KeyName(cs) ==
    IF cs = KeyChars("price") THEN "price"
    ELSE IF cs = KeyChars("quantity") THEN "quantity"
    ELSE "other"

\* OrderBookEntry.model_dump_json: compact, fields in declaration order,
\* a Decimal written as the JSON string str(value).
EntryToJson(e) ==
    <<"{", Quote>> \o KeyChars("price") \o <<Quote, ":", Quote>>
        \o DecimalToStr(e.price)
        \o <<Quote, ",", Quote>> \o KeyChars("quantity") \o <<Quote, ":", Quote>>
        \o DecimalToStr(e.quantity) \o <<Quote, "}">>

\* The first index at or after i that holds no space (Len(cs) + 1 at the end).
SkipWs(cs, i) ==
    IF \E j \in i..Len(cs) : cs[j] # " "
    THEN CHOOSE j \in i..Len(cs) : cs[j] # " " /\ \A k \in i..(j - 1) : cs[k] = " "
    ELSE Len(cs) + 1

JsonBad == [ok |-> FALSE, v |-> NoneV, next |-> 0]

\* A JSON string starting at the quote cs[i] (no escapes).
JsonString(cs, i) ==
    IF \E j \in (i + 1)..Len(cs) : cs[j] = Quote
    THEN LET j == CHOOSE j \in (i + 1)..Len(cs) :
                      cs[j] = Quote /\ \A k \in (i + 1)..(j - 1) : cs[k] # Quote
         IN  [ok |-> TRUE, v |-> Str(SubSeq(cs, i + 1, j - 1)), next |-> j + 1]
    ELSE JsonBad

\* d with d[k] = v.
DictSet(d, k, v) ==
    IF DictHas(d, k)
    THEN DictV(d.keys, [i \in 1..Len(d.keys) |-> IF d.keys[i] = k THEN v ELSE d.items[i]])
    ELSE DictV(Append(d.keys, k), Append(d.items, v))

RECURSIVE JsonValue(_, _), JsonElems(_, _, _), JsonMembers(_, _, _)
\* The JSON value starting at or after cs[i]: a string, an array, an object.
JsonValue(cs, i) ==
    LET j == SkipWs(cs, i)
    IN  IF j > Len(cs) THEN JsonBad
        ELSE IF cs[j] = Quote THEN JsonString(cs, j)
        ELSE IF cs[j] = "[" THEN JsonElems(cs, j + 1, <<>>)
        ELSE IF cs[j] = "{" THEN JsonMembers(cs, j + 1, DictV(<<>>, <<>>))
        ELSE JsonBad

\* The rest of an array after "[" or ",", acc the elements read so far.
JsonElems(cs, i, acc) ==
    LET j == SkipWs(cs, i)
    IN  IF j > Len(cs) THEN JsonBad
        ELSE IF cs[j] = "]" /\ acc = <<>> THEN [ok |-> TRUE, v |-> ListV(acc), next |-> j + 1]
        ELSE LET r == JsonValue(cs, j)
                 k == SkipWs(cs, r.next)
             IN  IF ~r.ok \/ k > Len(cs) THEN JsonBad
                 ELSE IF cs[k] = "," THEN JsonElems(cs, k + 1, Append(acc, r.v))
                 ELSE IF cs[k] = "]"
                 THEN [ok |-> TRUE, v |-> ListV(Append(acc, r.v)), next |-> k + 1]
                 ELSE JsonBad

\* The rest of an object after "{" or ",", d the members read so far.
JsonMembers(cs, i, d) ==
    LET j == SkipWs(cs, i)
    IN  IF j > Len(cs) THEN JsonBad
        ELSE IF cs[j] = "}" /\ d.keys = <<>> THEN [ok |-> TRUE, v |-> d, next |-> j + 1]
        ELSE IF cs[j] # Quote THEN JsonBad
        ELSE LET key == JsonString(cs, j)
                 c == SkipWs(cs, key.next)
             IN  IF ~key.ok \/ c > Len(cs) THEN JsonBad
                 ELSE IF cs[c] # ":" THEN JsonBad
                 ELSE LET r == JsonValue(cs, c + 1)
                          k == SkipWs(cs, r.next)
                          d2 == DictSet(d, KeyName(key.v.s), r.v)
                      IN  IF ~r.ok \/ k > Len(cs) THEN JsonBad
                          ELSE IF cs[k] = "," THEN JsonMembers(cs, k + 1, d2)
                          ELSE IF cs[k] = "}" THEN [ok |-> TRUE, v |-> d2, next |-> k + 1]
                          ELSE JsonBad

\* json.loads: one value and nothing but spaces after it.
JsonLoads(cs) ==
    LET r == JsonValue(cs, 1)
    IN  IF r.ok /\ SkipWs(cs, r.next) > Len(cs) THEN r ELSE JsonBad

\* OrderBookEntry.model_validate_json
ValidateEntryJson(cs) ==
    LET r == JsonLoads(cs)
    IN  IF r.ok THEN ValidateEntry(r.v) ELSE Fail(<<Err(<<>>, "json_invalid")>>)

\* ------------------------------------------------------------------ OrderBook

\* As ListResult, the elements that fail left out of the list.
ListResultLenient(rs) ==
    Ok(LET keep == {i \in 1..Len(rs) : rs[i].ok}
           nth(n) == CHOOSE i \in keep : Cardinality({j \in keep : j <= i}) = n
       IN  [n \in 1..Cardinality(keep) |-> rs[nth(n)].val])

\* As ListResult, the list built back to front.
ListResultReversed(rs) ==
    IF \A i \in 1..Len(rs) : rs[i].ok
    THEN Ok([i \in 1..Len(rs) |-> rs[Len(rs) + 1 - i].val])
    ELSE Fail(Flatten([i \in 1..Len(rs) |-> Under(ToString(i - 1), rs[i].errs)]))

\* The list of the elements' outcomes rs, or every element's errors
\* reported under its index.
ListResult(rs) ==
    IF \A i \in 1..Len(rs) : rs[i].ok
    THEN Ok([i \in 1..Len(rs) |-> rs[i].val])
    ELSE Fail(Flatten([i \in 1..Len(rs) |-> Under(ToString(i - 1), rs[i].errs)]))

\* A field annotated List[OrderBookEntry]: every element validated in order.
ValidateEntryList(v) ==
    IF v.t \notin {"list", "tuple"} THEN Fail(<<Err(<<>>, "list_type")>>)
    ELSE ListResult([i \in 1..Len(v.items) |-> ValidateEntry(v.items[i])])

\* One required list field f of the mapping d: missing, or validated.
BookField(d, f) ==
    IF ~DictHas(d, f) THEN Fail(<<Err(<<f>>, "missing")>>)
    ELSE FieldResult(f, ValidateEntryList(DictGet(d, f)))

\* The book of the two fields' outcomes, or every error of both.
BookResult(b, a) ==
    IF b.ok /\ a.ok THEN Ok([bids |-> b.val, asks |-> a.val])
    ELSE Fail(b.errs \o a.errs)

\* OrderBook.model_validate: the fields bids and asks of a mapping, every
\* error collected, other keys ignored.
ValidateBook(data) ==
    IF data.t # "dict" THEN Fail(<<Err(<<>>, "model_type")>>)
    ELSE BookResult(BookField(data, "bids"), BookField(data, "asks"))

\* ------------------------------------------------------------------ all_order_books_T

\* The keys of the mapping d, as a set.
KeySet(d) == {d.keys[i] : i \in 1..Len(d.keys)}

\* The index of key k in the key list ks.
KeyIndex(ks, k) == CHOOSE i \in 1..Len(ks) : ks[i] = k

\* As DictResult, the values that fail left out of the mapping.
DictResultLenient(ks, rs) ==
    Ok([k \in {ks[i] : i \in {j \in 1..Len(ks) : rs[j].ok}} |-> rs[KeyIndex(ks, k)].val])

\* The mapping of the keys ks to the values' outcomes rs, or every value's
\* errors reported under its key.
DictResult(ks, rs) ==
    IF \A i \in 1..Len(rs) : rs[i].ok
    THEN Ok([k \in {ks[i] : i \in 1..Len(ks)} |-> rs[KeyIndex(ks, k)].val])
    ELSE Fail(Flatten([i \in 1..Len(rs) |-> Under(ks[i], rs[i].errs)]))

\* TypeAdapter(dict[str, OrderBook]).validate_python: every value validated
\* as an OrderBook.
ValidateAll(data) ==
    IF data.t # "dict" THEN Fail(<<Err(<<>>, "dict_type")>>)
    ELSE DictResult(data.keys, [i \in 1..Len(data.keys) |-> ValidateBook(data.items[i])])

\* ------------------------------------------------------------------ attribute access

\* o.f = v on a frozen model: refused, o is left as it was.
SetAttrFrozen(o, f, v) == o

\* o.f = v on a BaseModel that is not frozen and does not validate assignments.
SetAttr(o, f, v) == [o EXCEPT ![f] = v]

\* o.f.append(e)
ListAppend(o, f, e) == [o EXCEPT ![f] = Append(@, e)]

\* o.f.pop()
ListPop(o, f) == [o EXCEPT ![f] = SubSeq(@, 1, Len(@) - 1)]

IsEntry(o) == DOMAIN o = {"price", "quantity"}

IsBook(o) == DOMAIN o = {"bids", "asks"}

\* ------------------------------------------------------------------ inputs

\* Character sequences of the literals used below.
S500000 == <<"5", "0", "0", "0", "0", ".", "0">>
S01 == <<"0", ".", "1">>
S1476091000 == <<"1", "4", "7", "6", "0", "9", "1", "0", "0", "0">>
S0126571 == <<"0", ".", "1", "2", "6", "5", "7", "1">>
S5Em7 == <<"5", "E", "-", "7">>
S5ep5 == <<"5", "e", "+", "5">>
SPlus5 == <<"+", "5">>
S00500 == <<"0", "0", ".", "5", "0", "0">>
SNaN == <<"N", "a", "N">>
SInfinity == <<"I", "n", "f", "i", "n", "i", "t", "y">>
SmInf == <<"-", "I", "n", "f">>
S700000 == <<"7", "0", "0", "0", "0", ".", "0">>
S03 == <<"0", ".", "3">>
S1ep16 == <<"1", "e", "+", "1", "6">>
Snan == <<"n", "a", "n">>
Sinf == <<"i", "n", "f">>
JArray == <<"[", Quote, "5", "0", "0", "0", "0", ".", "0", Quote, ",", " ", Quote, "0", ".", "1", Quote, "]">>
JObject == <<"{", Quote, "p", "r", "i", "c", "e", Quote, ":", " ", Quote, "7", "0", "0", "0", "0", ".", "0", Quote, ",", " ", Quote, "q", "u", "a", "n", "t", "i", "t", "y", Quote, ":", " ", Quote, "0", ".", "3", Quote, "}">>
JTruncated == <<"{", Quote, "p", "r", "i", "c", "e", Quote, ":", " ", Quote, "7", "0", "0", "0", "0", ".", "0", Quote>>

Alphabet == {"0", "5", ".", "-", "E"}

\* Every string over Alphabet of length at most n.
Strings(n) == UNION {[1..k -> Alphabet] : k \in 0..n}

\* Numeric strings of the tests, and spellings the enumeration does not reach.
FixtureStrings ==
    { S500000, S01, S1476091000, S0126571,
      S5Em7, S5ep5, SPlus5, S00500, SNaN, SInfinity, SmInf }

\* repr() of the floats given as inputs: 0.1, 70000.0, 0.3, 1e+16, nan, inf.
FloatReprs ==
    { S01, S700000, S03, S1ep16, Snan, Sinf }

\* The inputs given for one field: strings, ints, floats and None.
Scalars ==
    {Str(cs) : cs \in Strings(MaxLen) \cup FixtureStrings}
        \cup {IntV(i) : i \in (0 - MaxInt)..MaxInt} \cup {IntV(50000)}
        \cup {FloatV(r) : r \in FloatReprs}
        \cup {NoneV}

\* The few inputs given for the other field of a pair.
Probes == {Str(S01), IntV(5), FloatV(S03), Str(<<"x">>)}

Pairs == (Scalars \X Probes) \cup (Probes \X Scalars)

\* Every sequence over S of length k.
Tuples(S, k) == [1..k -> S]

\* Raw inputs given in place of one order-book entry.
EntryInputs ==
    {ListV(<<pq[1], pq[2]>>) : pq \in Pairs}
        \cup {TupleV(<<pq[1], pq[2]>>) : pq \in Pairs}
        \cup {DictV(<<"price", "quantity">>, <<pq[1], pq[2]>>) : pq \in Pairs}
        \cup {DictV(<<"quantity", "extra", "price">>, <<pq[2], Str(<<"x">>), pq[1]>>) : pq \in Pairs}
        \cup {ListV(xs) : xs \in UNION {Tuples(Probes, k) : k \in (0..MaxSeq) \ {2}}}
        \cup {TupleV(xs) : xs \in UNION {Tuples(Probes, k) : k \in (0..MaxSeq) \ {2}}}
        \cup {DictV(<<"price">>, <<x>>) : x \in Scalars}
        \cup {DictV(<<"quantity">>, <<x>>) : x \in Scalars}
        \cup {DictV(<<"extra", "price">>, <<Str(<<"x">>), x>>) : x \in Scalars}
        \cup {DictV(<<"extra">>, <<x>>) : x \in Probes}
        \cup {DictV(<<>>, <<>>)}
        \cup Scalars

\* JSON texts of the tests: the array form and the object form.
JsonFixtures ==
    { JArray, JObject, JTruncated }

\* Raw entries a book's lists are made of: two valid shapes, two invalid.
BookItems ==
    { ListV(<<Str(S500000), Str(S01)>>),
      DictV(<<"price", "quantity">>, <<IntV(5), FloatV(S03)>>),
      ListV(<<Str(S500000)>>),
      ListV(<<Str(S01), Str(<<"x">>)>>) }

\* Every list over BookItems of length at most n.
ItemLists(n) == UNION {Tuples(BookItems, k) : k \in 0..n}

ListPairs ==
    (ItemLists(MaxBook) \X ItemLists(1)) \cup (ItemLists(1) \X ItemLists(MaxBook))

\* Raw books: bids and asks in either order, with and without other keys,
\* with one of them missing, and a value that is no mapping at all.
BookInputs ==
    {DictV(<<"bids", "asks">>, <<ListV(ba[1]), ListV(ba[2])>>) : ba \in ListPairs}
        \cup {DictV(<<"status", "lastUpdate", "lastTradePrice", "asks", "bids">>,
                    <<Str(<<"o", "k">>), IntV(1644), Str(<<"5">>), ListV(ba[2]), ListV(ba[1])>>) :
                ba \in ListPairs}
        \cup {DictV(<<"bids">>, <<ListV(b)>>) : b \in ItemLists(MaxBook)}
        \cup {DictV(<<"lastUpdate", "asks">>, <<IntV(1644), ListV(a)>>) : a \in ItemLists(MaxBook)}
        \cup {DictV(<<"bids", "asks">>, <<Str(<<"x">>), ListV(a)>>) : a \in ItemLists(1)}
        \cup {DictV(<<>>, <<>>), ListV(<<>>), NoneV}

Symbols == <<"BTCIRT", "USDTIRT", "USDTBTC", "ETHIRT">>

\* Raw books a snapshot is made of.
SnapshotBooks ==
    {DictV(<<"lastUpdate", "asks", "bids">>, <<IntV(1644), ListV(ba[2]), ListV(ba[1])>>) :
        ba \in ItemLists(1) \X {<<>>, <<DictV(<<"price", "quantity">>, <<IntV(5), FloatV(S03)>>)>>}}
        \cup {DictV(<<"bids">>, <<ListV(<<>>)>>), NoneV}

\* Raw snapshots: the first symbols, each with a raw book.
SnapshotInputs ==
    {DictV(SubSeq(Symbols, 1, Len(bs)), bs) :
        bs \in UNION {Tuples(SnapshotBooks, k) : k \in {j \in 0..MaxSyms : j <= Len(Symbols)}}}

\* ------------------------------------------------------------------ entries

\* A raw input, or a JSON text, waits to be validated as an entry.
Init ==
    /\ op = "init"
    /\ \/ raw \in EntryInputs /\ text = <<>>
       \/ raw = NoneV /\ text \in JsonFixtures
    /\ out = NoneV
    /\ obj = NoneV
    /\ arg = NoneV
    /\ nmut = 0

\* entry = OrderBookEntry.model_validate(raw)
ModelValidate ==
    /\ op = "init"
    /\ text = <<>>
    /\ out' = ValidateEntry(raw)
    /\ obj' = out'.val
    /\ op' = "validated"
    /\ UNCHANGED <<raw, text, arg, nmut>>

\* text = entry.model_dump_json()
ModelDumpJson ==
    /\ op \notin {"init", "dumped"}
    /\ IsEntry(obj)
    /\ text' = EntryToJson(obj)
    /\ op' = "dumped"
    /\ UNCHANGED <<raw, out, obj, arg, nmut>>

\* OrderBookEntry.model_validate_json(text), of a text received or dumped
ModelValidateJson ==
    /\ \/ op = "init" /\ text # <<>> /\ obj' = ValidateEntryJson(text).val /\ op' = "validated"
       \/ op = "dumped" /\ obj' = obj /\ op' = "revalidated"
    /\ out' = ValidateEntryJson(text)
    /\ UNCHANGED <<raw, text, arg, nmut>>

Next == ModelValidate \/ ModelDumpJson \/ ModelValidateJson

Spec == Init /\ [][Next]_vars

\* ------------------------------------------------------------------ books

\* A raw input waits to be validated as a book or as a snapshot of books.
InitBook ==
    /\ op = "init"
    /\ raw \in BookInputs \cup SnapshotInputs
    /\ out = NoneV
    /\ obj = NoneV
    /\ text = <<>>
    /\ arg = NoneV
    /\ nmut = 0

\* book = OrderBook.model_validate(raw)
BookValidate ==
    /\ op = "init"
    /\ out' = ValidateBook(raw)
    /\ obj' = out'.val
    /\ op' = "book"
    /\ UNCHANGED <<raw, text, arg, nmut>>

\* books = all_order_books_T.validate_python(raw)
AllValidate ==
    /\ op = "init"
    /\ out' = ValidateAll(raw)
    /\ obj' = out'.val
    /\ op' = "all"
    /\ UNCHANGED <<raw, text, arg, nmut>>

NextBook == BookValidate \/ AllValidate

SpecBook == InitBook /\ [][NextBook]_vars

\* ------------------------------------------------------------------ assignment after construction

\* Raw inputs the objects under assignment are constructed from.
MutInputs ==
    { ListV(<<Str(S500000), Str(S01)>>),
      DictV(<<"price", "quantity">>, <<IntV(5), FloatV(S03)>>),
      ListV(<<Str(S500000)>>) }
        \cup {DictV(<<"bids", "asks">>, <<ListV(ba[1]), ListV(ba[2])>>) :
                ba \in ItemLists(1) \X ItemLists(1)}

\* Decimals assigned to price and quantity.
MutDecimals == {DecimalFromInt(7), DecimalFromStr(S500000), DecimalFromStr(S01)}

\* Entries appended to bids and asks.
MutEntries == {[price |-> d, quantity |-> DecimalFromInt(7)] : d \in MutDecimals}

\* Lists assigned to bids and asks.
MutLists == {<<>>} \cup {<<e>> : e \in MutEntries}

InitMut ==
    /\ op = "init"
    /\ raw \in MutInputs
    /\ out = NoneV
    /\ obj = NoneV
    /\ text = <<>>
    /\ arg = NoneV
    /\ nmut = 0

\* entry.price = v, entry.quantity = v
SetField(f, v) ==
    /\ op # "init"
    /\ IsEntry(obj)
    /\ nmut < MaxMut
    /\ obj' = SetAttr(obj, f, v)
    /\ arg' = [field |-> f, val |-> v]
    /\ op' = "setattr"
    /\ nmut' = nmut + 1
    /\ UNCHANGED <<raw, out, text>>

\* book.bids = es, book.asks = es
SetList(f, es) ==
    /\ op # "init"
    /\ IsBook(obj)
    /\ nmut < MaxMut
    /\ obj' = SetAttr(obj, f, es)
    /\ arg' = [field |-> f, val |-> es]
    /\ op' = "setattr"
    /\ nmut' = nmut + 1
    /\ UNCHANGED <<raw, out, text>>

\* book.bids.append(e), book.asks.append(e)
AppendTo(f, e) ==
    /\ op # "init"
    /\ IsBook(obj)
    /\ nmut < MaxMut
    /\ obj' = ListAppend(obj, f, e)
    /\ arg' = [field |-> f, val |-> e]
    /\ op' = "append"
    /\ nmut' = nmut + 1
    /\ UNCHANGED <<raw, out, text>>

\* book.bids.pop(), book.asks.pop()
PopFrom(f) ==
    /\ op # "init"
    /\ IsBook(obj)
    /\ nmut < MaxMut
    /\ Len(obj[f]) > 0
    /\ obj' = ListPop(obj, f)
    /\ arg' = [field |-> f, val |-> obj[f][Len(obj[f])]]
    /\ op' = "pop"
    /\ nmut' = nmut + 1
    /\ UNCHANGED <<raw, out, text>>

NextMut ==
    \/ ModelValidate
    \/ BookValidate
    \/ ModelDumpJson
    \/ \E f \in {"price", "quantity"}, v \in MutDecimals : SetField(f, v)
    \/ \E f \in {"bids", "asks"}, es \in MutLists : SetList(f, es)
    \/ \E f \in {"bids", "asks"}, e \in MutEntries : AppendTo(f, e)
    \/ \E f \in {"bids", "asks"} : PopFrom(f)

SpecMut == InitMut /\ [][NextMut]_vars

\* ------------------------------------------------------------------ reference: exact decimal value

(* What a numeral denotes, read off its characters without building a      *)
(* Decimal.  A numeral is a sign of s characters, i integer digits, a       *)
(* point of d characters, f fraction digits and an exponent suffix; its     *)
(* digit of weight 10^k is the digit k places left of the point, shifted    *)
(* by the exponent.                                                         *)
Splits(cs) ==
    {sp \in [s : 0..1, i : 0..Len(cs), d : 0..1, f : 0..Len(cs)] :
        /\ sp.s + sp.i + sp.d + sp.f <= Len(cs)
        /\ sp.s = 1 => cs[1] \in {"-", "+"}
        /\ \A n \in (sp.s + 1)..(sp.s + sp.i) : cs[n] \in Digit
        /\ sp.d = 1 => cs[sp.s + sp.i + 1] = "."
        /\ sp.d = 0 => sp.f = 0
        /\ \A n \in (sp.s + sp.i + sp.d + 1)..(sp.s + sp.i + sp.d + sp.f) : cs[n] \in Digit
        /\ sp.i + sp.f >= 1
        /\ LET m == sp.s + sp.i + sp.d + sp.f
           IN  \/ m = Len(cs)
               \/ /\ cs[m + 1] \in {"E", "e"}
                  /\ \/ m + 2 <= Len(cs) /\ \A n \in (m + 2)..Len(cs) : cs[n] \in Digit
                     \/ /\ m + 3 <= Len(cs)
                        /\ cs[m + 2] \in {"-", "+"}
                        /\ \A n \in (m + 3)..Len(cs) : cs[n] \in Digit}

\* cs spells a finite number.
IsNumeral(cs) == Splits(cs) # {}

\* The value of the digits cs[a..b].
RECURSIVE RangeToNat(_, _, _)
RangeToNat(cs, a, b) ==
    IF b < a THEN 0 ELSE 10 * RangeToNat(cs, a, b - 1) + DigitVal(cs[b])

\* The exponent the suffix after position m spells (0 without a suffix).
RefExponent(cs, m) ==
    IF m = Len(cs) THEN 0
    ELSE IF cs[m + 2] = "-" THEN 0 - RangeToNat(cs, m + 3, Len(cs))
    ELSE IF cs[m + 2] = "+" THEN RangeToNat(cs, m + 3, Len(cs))
    ELSE RangeToNat(cs, m + 2, Len(cs))

\* The digit of weight 10^k of the numeral cs split as sp.
RefDigitOf(cs, sp, k) ==
    LET j == k - RefExponent(cs, sp.s + sp.i + sp.d + sp.f)
    IN  IF j >= 0
        THEN IF j < sp.i THEN cs[sp.s + sp.i - j] ELSE "0"
        ELSE IF 0 - j <= sp.f THEN cs[sp.s + sp.i + sp.d - j] ELSE "0"

\* The digit of weight 10^k of the Decimal d.
DecDigit(d, k) ==
    IF k - d.exp >= 0 /\ k - d.exp < Len(d.int) THEN d.int[Len(d.int) - (k - d.exp)] ELSE "0"

\* 10^n
RECURSIVE Pow10(_)
Pow10(n) == IF n = 0 THEN 1 ELSE 10 * Pow10(n - 1)

Abs(n) == IF n < 0 THEN 0 - n ELSE n

\* The Decimal d is exactly the number the numeral cs spells: same sign, the
\* same digit at every weight, and as many decimal places as were written.
ExactOfNumeral(d, cs) ==
    \E sp \in Splits(cs) :
        LET e == RefExponent(cs, sp.s + sp.i + sp.d + sp.f)
        IN  /\ d.kind = "finite"
            /\ d.sign = (IF sp.s = 1 /\ cs[1] = "-" THEN 1 ELSE 0)
            /\ d.exp = e - sp.f
            /\ \A k \in (e - sp.f - 1)..(e + sp.i + 1) : DecDigit(d, k) = RefDigitOf(cs, sp, k)
            /\ Len(d.int) <= sp.i + sp.f

\* The Decimal d is exactly the int n.
ExactOfInt(d, n) ==
    /\ d.kind = "finite"
    /\ d.sign = (IF n < 0 THEN 1 ELSE 0)
    /\ d.exp = 0
    /\ \A k \in 0..Len(d.int) : DecDigit(d, k) = DigitChars[((Abs(n) \div Pow10(k)) % 10) + 1]
    /\ Abs(n) < Pow10(Len(d.int))

\* v is a numeric string, an int, or a float that is a number (its repr
\* spells one: nan and inf do not).
IsNumeric(v) == v.t = "int" \/ (v.t \in {"str", "float"} /\ IsNumeral(v.s))

\* ExactDecimal: d is exactly the number the input v gives.
Exact(d, v) == IF v.t = "int" THEN ExactOfInt(d, v.n) ELSE ExactOfNumeral(d, v.s)

\* ------------------------------------------------------------------ claims

IsSeq(v) == v.t \in {"list", "tuple"}

\* The required fields the mapping d lacks.
MissingOf(d, fields) == {f \in fields : ~DictHas(d, f)}

\* The errors of the outcome r, as a set.
ErrorsOf(r) == {r.errs[i] : i \in 1..Len(r.errs)}

\* C1: validating a two-element list or tuple [p, q] of numeric strings,
\* ints or floats succeeds, with price exactly the number p spells and
\* quantity exactly the number q spells: element 0 is price, element 1 is
\* quantity, and every digit written is kept.
C1_PairBecomesEntry ==
    (op = "validated" /\ text = <<>> /\ IsSeq(raw) /\ Len(raw.items) = 2
        /\ IsNumeric(raw.items[1]) /\ IsNumeric(raw.items[2]))
    => /\ out.ok
       /\ Exact(out.val.price, raw.items[1])
       /\ Exact(out.val.quantity, raw.items[2])

\* A pair with a trailing zero in the price has become an entry.
C1_Witness ==
    /\ op = "validated"
    /\ raw = TupleV(<<Str(S500000), IntV(5)>>)
    /\ out.ok
    /\ out.val.price.exp = -1

\* C2: validating the mapping {"price": p, "quantity": q} of valid values
\* gives what validating the sequence [p, q] gives: both succeed with equal
\* price and equal quantity.
C2_MappingAsSequence ==
    (op = "validated" /\ text = <<>> /\ raw.t = "dict" /\ KeySet(raw) = {"price", "quantity"}
        /\ IsNumeric(DictGet(raw, "price")) /\ IsNumeric(DictGet(raw, "quantity")))
    => /\ out.ok
       /\ out = ValidateEntry(ListV(<<DictGet(raw, "price"), DictGet(raw, "quantity")>>))
       /\ out = ValidateEntry(TupleV(<<DictGet(raw, "price"), DictGet(raw, "quantity")>>))

\* A mapping with different price and quantity has become an entry.
C2_Witness ==
    /\ op = "validated"
    /\ raw = DictV(<<"price", "quantity">>, <<Str(S01), Str(S500000)>>)
    /\ out.ok
    /\ out.val.price # out.val.quantity

\* C3: the text of an entry is a JSON object with the keys price then
\* quantity, both values strings, no spaces; validating that text gives an
\* entry equal to the one serialized, digit for digit.
C3_RoundTrip ==
    /\ op = "dumped" =>
        /\ JsonLoads(text).ok
        /\ JsonLoads(text).v.t = "dict"
        /\ JsonLoads(text).v.keys = <<"price", "quantity">>
        /\ \A i \in 1..2 : JsonLoads(text).v.items[i].t = "str"
        /\ \A i \in 1..Len(text) : text[i] # " "
    /\ op = "revalidated" =>
        /\ out.ok
        /\ out.val = obj
        /\ out.val.price.exp = obj.price.exp
        /\ out.val.quantity.int = obj.quantity.int

\* The entry of "50000.0" has been serialized and validated again.
C3_Witness ==
    /\ op = "revalidated"
    /\ obj.price = Dec(0, <<"5", "0", "0", "0", "0", "0">>, -1)
    /\ out.ok

\* C4: validating a list or tuple of length other than two, or a scalar,
\* gives no entry: it fails with exactly one error.
C4_WrongShapeOneError ==
    (op = "validated" /\ text = <<>>
        /\ \/ IsSeq(raw) /\ Len(raw.items) # 2
           \/ raw.t \in {"str", "int", "float", "none"})
    => /\ ~out.ok
       /\ out.val = NoneV
       /\ Len(out.errs) = 1

\* A three-element list of numbers has been refused.
C4_Witness ==
    /\ op = "validated"
    /\ raw = ListV(<<Str(S01), IntV(5), Str(S01)>>)
    /\ ~out.ok

\* C5: validating a mapping that lacks price, quantity or both gives no
\* entry: it fails, a "missing" error names each missing field and only
\* those, and no error names a field that is present and valid.
C5_MissingFieldsNamed ==
    (op = "validated" /\ text = <<>> /\ raw.t = "dict"
        /\ MissingOf(raw, {"price", "quantity"}) # {})
    => /\ ~out.ok
       /\ out.val = NoneV
       /\ {e.loc : e \in {x \in ErrorsOf(out) : x.type = "missing"}}
            = {<<f>> : f \in MissingOf(raw, {"price", "quantity"})}
       /\ \A e \in ErrorsOf(out) :
            /\ Len(e.loc) = 1
            /\ e.loc[1] \in {"price", "quantity"}
            /\ DictHas(raw, e.loc[1]) => ~IsNumeric(DictGet(raw, e.loc[1]))

\* A mapping with neither field has been refused with both fields named.
C5_Witness ==
    /\ op = "validated"
    /\ raw = DictV(<<"extra">>, <<IntV(5)>>)
    /\ Len(out.errs) = 2

\* C6 as stated: a mapping with price, quantity and another key is refused.
C6_ExtraKeyRefused ==
    (op = "validated" /\ text = <<>> /\ raw.t = "dict"
        /\ {"price", "quantity"} \subseteq KeySet(raw) /\ KeySet(raw) # {"price", "quantity"})
    => ~out.ok

\* C6 as amended: a mapping with price, quantity and other keys is validated
\* as the mapping of price and quantity alone, the other keys ignored: with
\* valid values it succeeds; a sequence with a third element is refused.
C6_ExtraKeyIgnored ==
    /\ (op = "validated" /\ text = <<>> /\ raw.t = "dict"
            /\ {"price", "quantity"} \subseteq KeySet(raw) /\ KeySet(raw) # {"price", "quantity"})
        => /\ out = ValidateEntry(DictV(<<"price", "quantity">>,
                                        <<DictGet(raw, "price"), DictGet(raw, "quantity")>>))
           /\ (IsNumeric(DictGet(raw, "price")) /\ IsNumeric(DictGet(raw, "quantity"))) => out.ok
    /\ (op = "validated" /\ text = <<>> /\ IsSeq(raw) /\ Len(raw.items) > 2) => ~out.ok

\* A mapping with an extra key has become an entry.
C6_Witness ==
    /\ op = "validated"
    /\ raw.t = "dict"
    /\ KeySet(raw) = {"price", "quantity", "extra"}
    /\ out.ok

\* The raw book d gives both lists, and every element of both is a valid
\* entry shape.
GoodBook(d) ==
    /\ d.t = "dict"
    /\ \A f \in {"bids", "asks"} :
        /\ DictHas(d, f)
        /\ DictGet(d, f).t = "list"
        /\ \A i \in 1..Len(DictGet(d, f).items) : ValidateEntry(DictGet(d, f).items[i]).ok

\* C7: validating a raw book with n valid bids and m valid asks succeeds
\* with exactly n bids and m asks, bids[i] and asks[j] the entries of the
\* i-th and j-th input elements in the input's order; other keys of the raw
\* mapping change nothing and are not in the book.
C7_BookKeepsOrder ==
    (op = "book" /\ GoodBook(raw))
    => /\ out.ok
       /\ DOMAIN out.val = {"bids", "asks"}
       /\ \A f \in {"bids", "asks"} :
            /\ Len(out.val[f]) = Len(DictGet(raw, f).items)
            /\ \A i \in 1..Len(out.val[f]) :
                 out.val[f][i] = ValidateEntry(DictGet(raw, f).items[i]).val
       /\ out = ValidateBook(DictV(<<"bids", "asks">>, <<DictGet(raw, "bids"), DictGet(raw, "asks")>>))

\* A book with other keys and three bids, not all alike, has been built.
C7_Witness ==
    /\ op = "book"
    /\ DictHas(raw, "status")
    /\ out.ok
    /\ Len(out.val.bids) = 3
    /\ out.val.bids[1] # out.val.bids[3]
    /\ out.val.asks = <<>>

\* Element i of the list field f of the raw book d fails as an entry.
BadItem(d, f, i) ==
    /\ DictHas(d, f)
    /\ DictGet(d, f).t = "list"
    /\ i \in 1..Len(DictGet(d, f).items)
    /\ ~ValidateEntry(DictGet(d, f).items[i]).ok

\* C8: if a raw book lacks bids or asks, or any element of either list
\* fails as an entry, validation fails as a whole: no book is returned, a
\* missing field is named, and a failing element is named by field and index.
C8_BookAllOrNothing ==
    (op = "book" /\ raw.t = "dict"
        /\ \/ MissingOf(raw, {"bids", "asks"}) # {}
           \/ \E f \in {"bids", "asks"}, i \in 1..MaxBook + 1 : BadItem(raw, f, i))
    => /\ ~out.ok
       /\ out.val = NoneV
       /\ \A f \in MissingOf(raw, {"bids", "asks"}) : Err(<<f>>, "missing") \in ErrorsOf(out)
       /\ \A f \in {"bids", "asks"}, i \in 1..MaxBook + 1 :
            BadItem(raw, f, i) =>
                \E e \in ErrorsOf(out) :
                    Len(e.loc) >= 2 /\ e.loc[1] = f /\ e.loc[2] = ToString(i - 1)

\* A book whose last of three bids fails has been refused.
C8_Witness ==
    /\ op = "book"
    /\ BadItem(raw, "bids", 3)
    /\ ~BadItem(raw, "bids", 1)
    /\ ~BadItem(raw, "bids", 2)
    /\ ~out.ok

\* The keys of the raw snapshot d whose book fails to validate.
BadKeys(d) == {k \in KeySet(d) : ~ValidateBook(DictGet(d, k)).ok}

\* C9: validating a raw snapshot gives either a mapping with exactly the
\* input's keys, each to the book its own value validates to, or, when a
\* value fails, a failure as a whole that names every offending key and
\* no other; never a mapping of only the books that validated.
C9_SnapshotAllOrNothing ==
    (op = "all" /\ raw.t = "dict")
    => IF BadKeys(raw) = {}
       THEN /\ out.ok
            /\ DOMAIN out.val = KeySet(raw)
            /\ \A k \in KeySet(raw) : out.val[k] = ValidateBook(DictGet(raw, k)).val
       ELSE /\ ~out.ok
            /\ out.val = NoneV
            /\ {e.loc[1] : e \in ErrorsOf(out)} = BadKeys(raw)

\* A snapshot of one good and one bad book has been refused.
C9_Witness ==
    /\ op = "all"
    /\ raw.t = "dict"
    /\ KeySet(raw) = {"BTCIRT", "USDTIRT"}
    /\ BadKeys(raw) = {"USDTIRT"}
    /\ ~out.ok

====
